---- MODULE Spec2Model ----
(***************************************************************************)
(* The acquisition-and-persistence pipeline of YESFunnyPySatellite.        *)
(*                                                                         *)
(* The repository holds the pipeline twice: satlen.py (SatelliteKernel,    *)
(* storage_subsystem, a Queue(maxsize=1000), three sinks) and satyo.py     *)
(* (IntelligenceKernel, storage_kernel, an unbounded Queue(), a ghost      *)
(* vault, two sinks).  The variable `pipe` says which script is running;   *)
(* it is chosen in Init and never changes.  The variables carry satlen's   *)
(* names; under pipe = "satyo" telemetry_bus is kernel.telemetry_queue and *)
(* system_event is kernel.shutdown_event.                                  *)
(*                                                                         *)
(* Three threads: the main thread (boot, start, dashboard loop, Ctrl+C     *)
(* handler, exit), the harvester (tracking_loop / harvester_thread) and    *)
(* the storage thread (storage_subsystem / storage_kernel).  Both worker   *)
(* threads are daemon threads: they die when the main thread ends.         *)
(*                                                                         *)
(* Floating point quantities are fixed point integers: dB in thousandths   *)
(* (mdB), doppler in kHz, ranges in km, range rates in km/s.               *)
(***************************************************************************)
EXTENDS Integers, Sequences, FiniteSets

(***************************************************************************)
(* Bounds of the model.                                                    *)
(***************************************************************************)
\* Sampling cycles the harvester may start (the source loops without bound).
MaxCycles == 2
\* Satellites kept from the catalog (the source keeps sats[:100]).
SwarmSize == 2
\* telemetry_bus = Queue(maxsize=1000) in satlen.py, scaled.
BUS_MAXSIZE == 2
\* GHOST_TRACE_BUFFER = 50 in satyo.py, scaled.
GHOST_TRACE_BUFFER == 1

(***************************************************************************)
(* Program constants.                                                      *)
(***************************************************************************)
\* BASE_FREQ_GHZ = 12.450, in MHz.
BASE_FREQ_MHZ == 12450
\* LIGHT_SPEED = 299792.458 km/s, rounded down to whole km/s.
LIGHT_SPEED == 299792
\* 20 * log10(12.450) dB, in mdB.
FREQ_TERM_MDB == 21903
\* The 92.45 dB constant of calculate_path_loss, in mdB.
FSPL_CONST_MDB == 92450
\* snr > 15 classifies ACTIVE (perform_handshake), in mdB.
ACTIVE_SNR_MDB == 15000
\* snr < 20 writes the audit line (storage_subsystem), in mdB.
WEAK_SNR_MDB == 20000

(***************************************************************************)
(* The catalog: what load.tle_file returns.  A satellite is its name and   *)
(* its NORAD number (sat.name, sat.model.satnum).                          *)
(***************************************************************************)
Sat(name, satnum) == [name |-> name, satnum |-> satnum]

ISS_NAME == "ISS (ZARYA)"

\* The catalogs load.tle_file may return; the empty one is a file with no
\* element set in it, and the name line of an element set is free text: two
\* objects may carry the same one.
Catalogs == { <<Sat(ISS_NAME, 25544), Sat("NOAA 19", 33591), Sat("GOES 16", 41866)>>,
              <<>>,
              <<Sat("FENGYUN 1C DEB", 29733), Sat("FENGYUN 1C DEB", 29734)>> }

\* self.sats[:100]
Slice(s, n) == SubSeq(s, 1, IF Len(s) < n THEN Len(s) ELSE n)

(***************************************************************************)
(* The ephemeris (skyfield's sat.at(now), wgs84.subpoint, diff.distance,   *)
(* diff.speed): an opaque collaborator.  One reading is what it returns    *)
(* for one satellite at one instant.                                       *)
(***************************************************************************)
Reading(lat, lon, alt, range_km, range_rate) ==
    [lat |-> lat, lon |-> lon, alt |-> alt, range_km |-> range_km,
     range_rate |-> range_rate]

\* Three readings: a strong signal, a weak signal of an ACTIVE node, the
\* weak signal of a DEGRADED node.
Readings == << Reading(12, 144, 410, 100, 0),
               Reading(45, -122, 420, 400, 4),
               Reading(-33, 151, 430, 800, -4) >>

\* The reading for the satellite at place i of the swarm at the instant
\* `now` of cycle c: a function of (satellite, instant), one function per
\* sky.  Consecutive instants give one satellite different readings.
Ephemeris(s, i, c) == Readings[((s + i + c) % Len(Readings)) + 1]
Skies == 0 .. (Len(Readings) - 1)

\* 20 * log10(distance_km) in mdB, for the ranges of Readings.
Log10x20(distance_km) ==
    CASE distance_km = 100 -> 40000
      [] distance_km = 400 -> 52041
      [] distance_km = 800 -> 58062

\* QuantumSignalProcessor.calculate_path_loss, in mdB.
calculate_path_loss(distance_km) ==
    IF distance_km = 0 THEN 0
    ELSE Log10x20(distance_km) + FREQ_TERM_MDB + FSPL_CONST_MDB

\* snr = 100 - (path_loss / 2), in mdB.
Snr(range_km) == 100000 - (calculate_path_loss(range_km) \div 2)

\* doppler_shift = (range_rate / LIGHT_SPEED) * BASE_FREQ_GHZ, in kHz.
DopplerShift(range_rate) == (range_rate * BASE_FREQ_MHZ * 1000) \div LIGHT_SPEED

\* The classification with the audit threshold in the place of its own.
StatusAtWeakThreshold(snr) == IF snr > WEAK_SNR_MDB THEN "ACTIVE" ELSE "DEGRADED"

\* "ACTIVE" if snr > 15 else "DEGRADED"
Status(snr) == IF snr > ACTIVE_SNR_MDB THEN "ACTIVE" ELSE "DEGRADED"

\* The format '!Iffffd': the width in bytes of each field, no padding.
RECORD_FORMAT == <<4, 4, 4, 4, 4, 8>>

\* struct.calcsize
RECURSIVE calcsize(_)
calcsize(fmt) == IF fmt = <<>> THEN 0 ELSE Head(fmt) + calcsize(Tail(fmt))

\* struct.pack('!Iffffd', sat_id, lat, lon, alt, doppler, time.time())
Packet(sat_id, lat, lon, alt, doppler, ts) ==
    [sat_id |-> sat_id, lat |-> lat, lon |-> lon, alt |-> alt,
     doppler |-> doppler, ts |-> ts]

\* SatelliteKernel.perform_handshake: the telemetry dict of satlen.py.
perform_handshake(sat, r, ts) ==
    [node_name   |-> sat.name,
     node_id     |-> sat.satnum,
     coords      |-> <<r.lat, r.lon>>,
     altitude    |-> r.alt,
     range       |-> r.range_km,
     doppler     |-> DopplerShift(r.range_rate),
     snr         |-> Snr(r.range_km),
     status      |-> Status(Snr(r.range_km)),
     binary_blob |-> Packet(sat.satnum, r.lat, r.lon, r.alt,
                            DopplerShift(r.range_rate), ts)]

\* IntelligenceKernel.calculate_quantum_metrics: the dict of satyo.py; the
\* doppler field of its packet is the literal 0.0.
calculate_quantum_metrics(sat, r, ts, ghost_points) ==
    [node           |-> sat.name,
     id             |-> sat.satnum,
     lat            |-> r.lat,
     lon            |-> r.lon,
     alt            |-> r.alt,
     binary_payload |-> Packet(sat.satnum, r.lat, r.lon, r.alt, 0, ts),
     ghost_points   |-> ghost_points]

(***************************************************************************)
(* State.                                                                  *)
(***************************************************************************)
VARIABLES
    pipe,           \* "satlen" or "satyo": the script that runs
    sky,            \* which ephemeris the run meets
    ghost_enabled,  \* satyo's --ghost-trace flag (FALSE under satlen)
    swarm,          \* self.swarm / self.active_swarm
    system_event,   \* the shutdown flag (threading.Event)
    telemetry_bus,  \* the queue's items, head first
    ghost_vault,    \* self.ghost_vault: name -> list of (lat, lon)
    main_pc,        \* where the main thread is
    exit_code,      \* the process' exit code, -1 while it runs
    shown,          \* the dashboard's last ISS row: lat, lon, pts
    harv_pc,        \* where the harvester thread is
    harv_i,         \* index of `sat` in the harvester's for loop
    harv_r,         \* the ephemeris reading of the current handshake
    cycles,         \* cycles the harvester has started
    clock,          \* time.time() of the last packet, as a tick count
    stor_pc,        \* where the storage thread is
    stor_data,      \* `data` / `packet`: the item the storage thread holds
    binary_log,     \* telemetry_core.bin / subspace_telemetry.bin
    json_log,       \* uplink_matrix.json / sat_intelligence.json
    audit_log,      \* system_audit.log
    accepted,       \* history: every item put() has returned for
    popped,         \* history: every item get() has returned
    mark,           \* history: Len(accepted) when the flag was set, else -1
    iss_states,     \* history: every <<lat, lon, pts>> the ISS trace has shown
    sampled,        \* history: the ephemeris reading behind each accepted item
    appended,       \* history: name -> every point appended to its trace
    tasks_done      \* history: how many times task_done() was called

vars == <<pipe, sky, ghost_enabled, swarm, system_event, telemetry_bus, ghost_vault,
          main_pc, exit_code, shown, harv_pc, harv_i, harv_r, cycles, clock,
          stor_pc, stor_data, binary_log, json_log, audit_log,
          accepted, popped, mark, iss_states, sampled, appended, tasks_done>>

config_vars  == <<pipe, sky, ghost_enabled, swarm>>
main_vars    == <<main_pc, exit_code, shown>>
harv_vars    == <<harv_pc, harv_i, harv_r, cycles, clock>>
stor_vars    == <<stor_pc, stor_data>>
sink_vars    == <<binary_log, json_log, audit_log>>

NoReading == [lat |-> 0, lon |-> 0, alt |-> 0, range_km |-> 0, range_rate |-> 0]
NoData    == [none |-> TRUE]
NoRow     == [lat |-> 0, lon |-> 0, pts |-> 0]

(***************************************************************************)
(* The queue (queue.Queue).  maxsize <= 0 is an unbounded queue.           *)
(***************************************************************************)
\* Queue(maxsize=1000) in satlen.py, Queue() in satyo.py.
maxsize == IF pipe = "satlen" THEN BUS_MAXSIZE ELSE 0

\* put() blocks while this holds.
BusFull == maxsize > 0 /\ Len(telemetry_bus) >= maxsize

\* A LifoQueue in the place of the Queue: the newest item leaves first.
BusPutLifo(q, item) == <<item>> \o q

\* Queue.put: the item joins the tail.
BusPut(q, item) == Append(q, item)

\* Queue.get: the item at the head leaves.
BusHead(q) == Head(q)
BusRest(q) == Tail(q)

(***************************************************************************)
(* The ghost vault of satyo.py.                                            *)
(***************************************************************************)
\* self.ghost_vault.get(name, default)
VaultGet(name, default) ==
    IF name \in DOMAIN ghost_vault THEN ghost_vault[name] ELSE default

\* self.ghost_vault[name] = value
VaultSet(name, value) ==
    [n \in DOMAIN ghost_vault \cup {name} |->
        IF n = name THEN value ELSE ghost_vault[n]]

\* What a reader of the ISS trace can see of a trace: last point and length.
View(trace) == <<trace[Len(trace)][1], trace[Len(trace)][2], Len(trace)>>
AbsentView  == <<0, 0, 0>>

(***************************************************************************)
(* Init: the state when the script starts, after it removed the old files. *)
(***************************************************************************)
Init ==
    /\ \E p \in {"satlen", "satyo"} :
          /\ pipe = p
          /\ ghost_enabled \in (IF p = "satyo" THEN BOOLEAN ELSE {FALSE})
    /\ sky \in Skies
    /\ swarm = <<>>
    /\ system_event = FALSE
    /\ telemetry_bus = <<>>
    /\ ghost_vault = <<>>
    /\ main_pc = "boot"
    /\ exit_code = -1
    /\ shown = NoRow
    /\ harv_pc = "idle"
    /\ harv_i = 0
    /\ harv_r = NoReading
    /\ cycles = 0
    /\ clock = 0
    /\ stor_pc = "idle"
    /\ stor_data = NoData
    /\ binary_log = <<>>
    /\ json_log = <<>>
    /\ audit_log = <<>>
    /\ accepted = <<>>
    /\ popped = <<>>
    /\ mark = -1
    /\ iss_states = {AbsentView}
    /\ sampled = <<>>
    /\ appended = <<>>
    /\ tasks_done = 0

(***************************************************************************)
(* The main thread.                                                        *)
(***************************************************************************)
\* What the end of the main thread does to a daemon thread.
Kill(pc) == IF pc \in {"idle", "returned", "crashed"} THEN pc ELSE "killed"

\* The interpreter exits: the daemon threads stop wherever they are.
ProcessExit(code) ==
    /\ main_pc' = "exited"
    /\ exit_code' = code
    /\ harv_pc' = Kill(harv_pc)
    /\ stor_pc' = Kill(stor_pc)

\* SatelliteKernel.__init__ / boot_sequence: load.tle_file succeeds.
M_Boot ==
    /\ main_pc = "boot"
    /\ \E catalog \in Catalogs : swarm' = Slice(catalog, SwarmSize)
    /\ main_pc' = "start"
    /\ UNCHANGED <<pipe, sky, ghost_enabled, system_event, telemetry_bus, ghost_vault,
                   exit_code, shown, harv_vars, stor_vars, sink_vars,
                   accepted, popped, mark, iss_states,
                   sampled, appended, tasks_done>>

\* load.tle_file raises: satlen.py calls exit(), satyo.py calls sys.exit(1).
M_BootFail ==
    /\ main_pc = "boot"
    /\ ProcessExit(IF pipe = "satlen" THEN 0 ELSE 1)
    /\ UNCHANGED <<config_vars, system_event, telemetry_bus, ghost_vault, shown,
                   harv_i, harv_r, cycles, clock, stor_data, sink_vars,
                   accepted, popped, mark, iss_states,
                   sampled, appended, tasks_done>>

\* tracker_thread.start(); io_thread.start() / t1.start(); t2.start()
M_Start ==
    /\ main_pc = "start"
    /\ harv_pc' = "check"
    /\ stor_pc' = "header"
    /\ main_pc' = IF pipe = "satlen" THEN "dashboard" ELSE "show_lat"
    /\ UNCHANGED <<config_vars, system_event, telemetry_bus, ghost_vault,
                   exit_code, shown, harv_i, harv_r, cycles, clock, stor_data,
                   sink_vars, accepted, popped, mark, iss_states,
                   sampled, appended, tasks_done>>

\* A dashboard that empties the bus it reports on.
M_DashboardDraining ==
    /\ main_pc = "dashboard"
    /\ main_pc' = "pause"
    /\ telemetry_bus' = <<>>
    /\ UNCHANGED <<config_vars, system_event, ghost_vault,
                   exit_code, shown, harv_vars, stor_vars, sink_vars,
                   accepted, popped, mark, iss_states,
                   sampled, appended, tasks_done>>

\* satlen.py's dashboard: prints the time, qsize() and fixed rows.
M_Dashboard ==
    /\ main_pc = "dashboard"
    /\ main_pc' = "pause"
    /\ UNCHANGED <<config_vars, system_event, telemetry_bus, ghost_vault,
                   exit_code, shown, harv_vars, stor_vars, sink_vars,
                   accepted, popped, mark, iss_states,
                   sampled, appended, tasks_done>>

\* The element x[-1][k] of a list read by the dashboard, or the IndexError.
\* engine.ghost_vault.get('ISS (ZARYA)', [(0,0)])[-1][0]
M_ShowLat ==
    /\ main_pc = "show_lat"
    /\ LET trace == VaultGet(ISS_NAME, << <<0, 0>> >>) IN
         IF Len(trace) = 0
         THEN /\ ProcessExit(1)
              /\ UNCHANGED shown
         ELSE /\ shown' = [shown EXCEPT !.lat = trace[Len(trace)][1]]
              /\ main_pc' = "show_lon"
              /\ UNCHANGED <<exit_code, harv_pc, stor_pc>>
    /\ UNCHANGED <<config_vars, system_event, telemetry_bus, ghost_vault,
                   harv_i, harv_r, cycles, clock, stor_data, sink_vars,
                   accepted, popped, mark, iss_states,
                   sampled, appended, tasks_done>>

\* engine.ghost_vault.get('ISS (ZARYA)', [(0,0)])[-1][1]
M_ShowLon ==
    /\ main_pc = "show_lon"
    /\ LET trace == VaultGet(ISS_NAME, << <<0, 0>> >>) IN
         IF Len(trace) = 0
         THEN /\ ProcessExit(1)
              /\ UNCHANGED shown
         ELSE /\ shown' = [shown EXCEPT !.lon = trace[Len(trace)][2]]
              /\ main_pc' = "show_len"
              /\ UNCHANGED <<exit_code, harv_pc, stor_pc>>
    /\ UNCHANGED <<config_vars, system_event, telemetry_bus, ghost_vault,
                   harv_i, harv_r, cycles, clock, stor_data, sink_vars,
                   accepted, popped, mark, iss_states,
                   sampled, appended, tasks_done>>

\* len(engine.ghost_vault.get('ISS (ZARYA)', [])), then the row is printed.
M_ShowLen ==
    /\ main_pc = "show_len"
    /\ shown' = [shown EXCEPT !.pts = Len(VaultGet(ISS_NAME, <<>>))]
    /\ main_pc' = "pause"
    /\ UNCHANGED <<config_vars, system_event, telemetry_bus, ghost_vault,
                   exit_code, harv_vars, stor_vars, sink_vars,
                   accepted, popped, mark, iss_states,
                   sampled, appended, tasks_done>>

\* time.sleep(0.5), and the next round of `while True`: a new row.
M_Pause ==
    /\ main_pc = "pause"
    /\ main_pc' = IF pipe = "satlen" THEN "dashboard" ELSE "show_lat"
    /\ shown' = NoRow
    /\ UNCHANGED <<config_vars, system_event, telemetry_bus, ghost_vault,
                   exit_code, harv_vars, stor_vars, sink_vars,
                   accepted, popped, mark, iss_states,
                   sampled, appended, tasks_done>>

InTryBlock == main_pc \in {"dashboard", "show_lat", "show_lon", "show_len", "pause"}

\* An event that flips at each call, in the place of threading.Event.
EventFlip(flag) == ~flag

\* threading.Event.set(): the flag is true afterwards, whatever it was.
EventSet(flag) == TRUE

\* Ctrl+C inside the try block; the handler sets the event.
M_Interrupt ==
    /\ InTryBlock
    /\ system_event' = EventSet(system_event)
    /\ mark' = Len(accepted)
    /\ main_pc' = IF pipe = "satlen" THEN "closing" ELSE "report"
    /\ UNCHANGED <<config_vars, telemetry_bus, ghost_vault, exit_code, shown,
                   harv_vars, stor_vars, sink_vars, accepted, popped, iss_states,
                   sampled, appended, tasks_done>>

\* satlen.py: time.sleep(1) and "[SHUTDOWN] All data persisted"; satyo.py:
\* "[TERMINATED] ... Data integrity verified".  Then the script ends.
M_Exit ==
    /\ main_pc \in {"closing", "report"}
    /\ ProcessExit(0)
    /\ UNCHANGED <<config_vars, system_event, telemetry_bus, ghost_vault, shown,
                   harv_i, harv_r, cycles, clock, stor_data, sink_vars,
                   accepted, popped, mark, iss_states,
                   sampled, appended, tasks_done>>

Main == \/ M_Boot \/ M_BootFail \/ M_Start \/ M_Dashboard \/ M_ShowLat
        \/ M_ShowLon \/ M_ShowLen \/ M_Pause \/ M_Interrupt \/ M_Exit

(***************************************************************************)
(* The harvester thread: tracking_loop (satlen.py) and harvester_thread    *)
(* with calculate_quantum_metrics (satyo.py).                              *)
(***************************************************************************)
\* The for loop walking the catalog from its end.
sat_reversed == swarm[Len(swarm) + 1 - harv_i]

\* for sat in self.swarm / for sat in self.active_swarm
sat == swarm[harv_i]

\* The item the harvester puts on the bus for the current satellite.
Telemetry ==
    IF pipe = "satlen"
    THEN perform_handshake(sat, harv_r, clock)
    ELSE calculate_quantum_metrics(sat, harv_r, clock, Len(VaultGet(sat.name, <<>>)))

\* while not system_event.is_set(): ...; now = self.ts.now()
H_Check ==
    /\ harv_pc = "check"
    /\ IF system_event
       THEN /\ harv_pc' = "returned"
            /\ UNCHANGED <<harv_i, cycles>>
       ELSE /\ cycles < MaxCycles
            /\ cycles' = cycles + 1
            /\ harv_i' = 1
            /\ harv_pc' = IF Len(swarm) = 0 THEN "sleep" ELSE "handshake"
    /\ UNCHANGED <<config_vars, system_event, telemetry_bus, ghost_vault,
                   main_vars, harv_r, clock, stor_vars, sink_vars,
                   accepted, popped, mark, iss_states,
                   sampled, appended, tasks_done>>

\* sat.at(now), wgs84.subpoint(...), the packet with time.time().
H_Handshake ==
    /\ harv_pc = "handshake"
    /\ harv_r' = Ephemeris(sky, harv_i, cycles)
    /\ clock' = clock + 1
    /\ harv_pc' = IF ghost_enabled THEN "vault_init" ELSE "put"
    /\ UNCHANGED <<config_vars, system_event, telemetry_bus, ghost_vault,
                   main_vars, harv_i, cycles, stor_vars, sink_vars,
                   accepted, popped, mark, iss_states,
                   sampled, appended, tasks_done>>

\* sat.at(now) or one of the calls after it raises: neither loop has a
\* try around the call, so the exception ends the harvester thread.
H_HandshakeFails ==
    /\ harv_pc = "handshake"
    /\ harv_pc' = "crashed"
    /\ UNCHANGED <<config_vars, system_event, telemetry_bus, ghost_vault,
                   main_vars, harv_i, harv_r, cycles, clock, stor_vars,
                   sink_vars, accepted, popped, mark, iss_states,
                   sampled, appended, tasks_done>>

\* if sat.name not in self.ghost_vault: self.ghost_vault[sat.name] = []
H_VaultInit ==
    /\ harv_pc = "vault_init"
    /\ ghost_vault' = IF sat.name \in DOMAIN ghost_vault
                      THEN ghost_vault
                      ELSE VaultSet(sat.name, <<>>)
    /\ harv_pc' = "vault_append"
    /\ UNCHANGED <<config_vars, system_event, telemetry_bus, main_vars,
                   harv_i, harv_r, cycles, clock, stor_vars, sink_vars,
                   accepted, popped, mark, iss_states,
                   sampled, appended, tasks_done>>

\* list.append(point)
ListAppend(trace, point) == Append(trace, point)

\* self.ghost_vault[sat.name].append((lat, lon))
H_VaultAppend ==
    /\ harv_pc = "vault_append"
    /\ LET trace == ListAppend(ghost_vault[sat.name], <<harv_r.lat, harv_r.lon>>) IN
         /\ ghost_vault' = VaultSet(sat.name, trace)
         /\ iss_states' = IF sat.name = ISS_NAME
                          THEN iss_states \cup {View(trace)}
                          ELSE iss_states
    /\ appended' = [n \in DOMAIN appended \cup {sat.name} |->
                       IF n # sat.name THEN appended[n]
                       ELSE Append(IF n \in DOMAIN appended THEN appended[n] ELSE <<>>,
                                   <<harv_r.lat, harv_r.lon>>)]
    /\ harv_pc' = "vault_evict"
    /\ UNCHANGED <<config_vars, system_event, telemetry_bus, main_vars,
                   harv_i, harv_r, cycles, clock, stor_vars, sink_vars,
                   accepted, popped, mark,
                   sampled, tasks_done>>

\* The eviction taking the newest point, trace.pop(), in the place of pop(0).
EvictNewest(trace) ==
    IF Len(trace) > GHOST_TRACE_BUFFER THEN SubSeq(trace, 1, Len(trace) - 1) ELSE trace

\* if len(trace) > GHOST_TRACE_BUFFER: trace.pop(0)
Evict(trace) == IF Len(trace) > GHOST_TRACE_BUFFER THEN Tail(trace) ELSE trace

H_VaultEvict ==
    /\ harv_pc = "vault_evict"
    /\ LET trace == Evict(ghost_vault[sat.name]) IN
         /\ ghost_vault' = VaultSet(sat.name, trace)
         /\ iss_states' = IF sat.name = ISS_NAME
                          THEN iss_states \cup {View(trace)}
                          ELSE iss_states
    /\ harv_pc' = "put"
    /\ UNCHANGED <<config_vars, system_event, telemetry_bus, main_vars,
                   harv_i, harv_r, cycles, clock, stor_vars, sink_vars,
                   accepted, popped, mark,
                   sampled, appended, tasks_done>>

\* telemetry_bus.put(telemetry): blocks while the bus is full; then the
\* next satellite of the for loop, or time.sleep after the last one.
H_Put ==
    /\ harv_pc = "put"
    /\ ~BusFull
    /\ telemetry_bus' = BusPut(telemetry_bus, Telemetry)
    /\ accepted' = Append(accepted, Telemetry)
    /\ sampled' = Append(sampled, harv_r)
    /\ IF harv_i < Len(swarm)
       THEN /\ harv_i' = harv_i + 1
            /\ harv_pc' = "handshake"
       ELSE /\ harv_i' = harv_i
            /\ harv_pc' = "sleep"
    /\ UNCHANGED <<config_vars, system_event, ghost_vault, main_vars,
                   harv_r, cycles, clock, stor_vars, sink_vars,
                   popped, mark, iss_states,
                   appended, tasks_done>>

\* time.sleep(2) / time.sleep(1)
H_Sleep ==
    /\ harv_pc = "sleep"
    /\ harv_pc' = "check"
    /\ UNCHANGED <<config_vars, system_event, telemetry_bus, ghost_vault,
                   main_vars, harv_i, harv_r, cycles, clock, stor_vars,
                   sink_vars, accepted, popped, mark, iss_states,
                   sampled, appended, tasks_done>>

Harvester == \/ H_Check \/ H_Handshake \/ H_HandshakeFails
             \/ H_VaultInit \/ H_VaultAppend
             \/ H_VaultEvict \/ H_Put \/ H_Sleep

(***************************************************************************)
(* The storage thread: storage_subsystem (satlen.py), storage_kernel       *)
(* (satyo.py).  Every `with open(...)` may raise OSError; the loop catches *)
(* queue.Empty only, so any other exception ends the thread.               *)
(***************************************************************************)
HeaderEntry == [kind |-> "header", text |-> "NEXUS-INTEL-V2-START"]
ArrayOpen   == [kind |-> "open", text |-> "["]
PacketEntry(packet) == [kind |-> "packet", packet |-> packet]
JsonEntry(data)     == [kind |-> "record", data |-> data]

\* f"... WARN: Node {data['node_id']} Signal Weak ({data['snr']:.2f}dB) ..."
AuditLine(data) == [node_id |-> data.node_id, snr |-> data.snr]

\* data['binary_blob'] / bytes.fromhex(packet['binary_payload'])
BlobOf(data) == IF pipe = "satlen" THEN data.binary_blob ELSE data.binary_payload

\* if data['snr'] < 20
SignalWeak(data) == data.snr < WEAK_SNR_MDB

\* satlen.py: open(JSON_STREAM, 'w') writes "[\n"; satyo.py:
\* open(BINARY_CORE_FILE, "wb") writes the header.
S_Header ==
    /\ stor_pc = "header"
    /\ IF pipe = "satlen"
       THEN /\ json_log' = <<ArrayOpen>>
            /\ UNCHANGED binary_log
       ELSE /\ binary_log' = <<HeaderEntry>>
            /\ UNCHANGED json_log
    /\ stor_pc' = "check"
    /\ UNCHANGED <<config_vars, system_event, telemetry_bus, ghost_vault,
                   main_vars, harv_vars, stor_data, audit_log,
                   accepted, popped, mark, iss_states,
                   sampled, appended, tasks_done>>

\* while not system_event.is_set():
S_Check ==
    /\ stor_pc = "check"
    /\ stor_pc' = IF system_event THEN "returned" ELSE "get"
    /\ UNCHANGED <<config_vars, system_event, telemetry_bus, ghost_vault,
                   main_vars, harv_vars, stor_data, sink_vars,
                   accepted, popped, mark, iss_states,
                   sampled, appended, tasks_done>>

\* data = telemetry_bus.get(timeout=1)
S_Get ==
    /\ stor_pc = "get"
    /\ telemetry_bus # <<>>
    /\ stor_data' = BusHead(telemetry_bus)
    /\ telemetry_bus' = BusRest(telemetry_bus)
    /\ popped' = Append(popped, BusHead(telemetry_bus))
    /\ stor_pc' = "bin"
    /\ UNCHANGED <<config_vars, system_event, ghost_vault, main_vars,
                   harv_vars, sink_vars, accepted, mark, iss_states,
                   sampled, appended, tasks_done>>

\* The timeout passes with the bus empty: except Empty: continue
S_GetEmpty ==
    /\ stor_pc = "get"
    /\ telemetry_bus = <<>>
    /\ stor_pc' = "check"
    /\ UNCHANGED <<config_vars, system_event, telemetry_bus, ghost_vault,
                   main_vars, harv_vars, stor_data, sink_vars,
                   accepted, popped, mark, iss_states,
                   sampled, appended, tasks_done>>

\* The write of a file opened with "wb": what was there is gone.
FileRewrite(log, entry) == <<entry>>

\* The write of a file opened with "ab" / "a": at the end of what is there.
FileAppend(log, entry) == Append(log, entry)

\* with open(BINARY_LOG, "ab") as bin_file: bin_file.write(blob)
S_Bin ==
    /\ stor_pc = "bin"
    /\ binary_log' = FileAppend(binary_log, PacketEntry(BlobOf(stor_data)))
    /\ stor_pc' = "json"
    /\ UNCHANGED <<config_vars, system_event, telemetry_bus, ghost_vault,
                   main_vars, harv_vars, stor_data, json_log, audit_log,
                   accepted, popped, mark, iss_states,
                   sampled, appended, tasks_done>>

\* with open(JSON_STREAM, "a") as j_file: json.dump(...); then, in satyo.py,
\* task_done() and the next round.
S_Json ==
    /\ stor_pc = "json"
    /\ json_log' = FileAppend(json_log, JsonEntry(stor_data))
    /\ stor_pc' = IF pipe = "satlen" THEN "audit" ELSE "check"
    /\ tasks_done' = IF pipe = "satlen" THEN tasks_done ELSE tasks_done + 1
    /\ UNCHANGED <<config_vars, system_event, telemetry_bus, ghost_vault,
                   main_vars, harv_vars, stor_data, binary_log, audit_log,
                   accepted, popped, mark, iss_states, sampled, appended>>

\* if data['snr'] < 20: with open(RECOVERY_LOG, "a") as log: log.write(...)
\* then task_done() and the next round.
S_Audit ==
    /\ stor_pc = "audit"
    /\ audit_log' = IF SignalWeak(stor_data)
                    THEN FileAppend(audit_log, AuditLine(stor_data))
                    ELSE audit_log
    /\ stor_pc' = "check"
    /\ tasks_done' = tasks_done + 1
    /\ UNCHANGED <<config_vars, system_event, telemetry_bus, ghost_vault,
                   main_vars, harv_vars, stor_data, binary_log, json_log,
                   accepted, popped, mark, iss_states,
                   sampled, appended>>

\* The sink the storage thread is about to open, if any.
AtSink == \/ stor_pc \in {"bin", "json"}
          \/ stor_pc = "audit" /\ SignalWeak(stor_data)

\* open() or write() raises OSError: nothing catches it, the thread ends.
S_WriteFails ==
    /\ AtSink
    /\ stor_pc' = "crashed"
    /\ UNCHANGED <<config_vars, system_event, telemetry_bus, ghost_vault,
                   main_vars, harv_vars, stor_data, sink_vars,
                   accepted, popped, mark, iss_states,
                   sampled, appended, tasks_done>>

Storage == \/ S_Header \/ S_Check \/ S_Get \/ S_GetEmpty \/ S_Bin \/ S_Json
           \/ S_Audit \/ S_WriteFails

(***************************************************************************)
(* The specification.                                                      *)
(***************************************************************************)
Next == Main \/ Harvester \/ Storage

Spec == Init /\ [][Next]_vars

(***************************************************************************)
(* Vocabulary of the properties.                                           *)
(***************************************************************************)
\* How many entries of a log equal `entry`.
Count(log, entry) == Cardinality({k \in DOMAIN log : log[k] = entry})

\* The item has its binary record and its structured record, once each.
PersistedOnce(data) ==
    /\ Count(binary_log, PacketEntry(BlobOf(data))) = 1
    /\ Count(json_log, JsonEntry(data)) = 1

\* The satellite an item is about.
SatnumOf(data) == BlobOf(data).sat_id

\* The audit lines the items of `items` call for, in order.
RECURSIVE WeakLines(_)
WeakLines(items) ==
    IF items = <<>> THEN <<>>
    ELSE (IF SignalWeak(Head(items)) THEN <<AuditLine(Head(items))>> ELSE <<>>)
         \o WeakLines(Tail(items))

\* The storage thread is inside the round of one item.
MidRound == stor_pc \in {"bin", "json", "audit"}

(***************************************************************************)
(* C1: drain completeness.  When the storage thread has returned, every    *)
(* item the bus accepted before the flag was set has exactly one binary    *)
(* record and exactly one structured record.                               *)
(***************************************************************************)
C1_DrainCompleteness ==
    stor_pc = "returned" =>
        \A k \in 1..mark : PersistedOnce(accepted[k])

(***************************************************************************)
(* C2: in both pipelines the bus never holds more than its capacity C     *)
(* (BUS_MAXSIZE, the capacity satlen.py configures).                       *)
(***************************************************************************)
C2_BusBounded == Len(telemetry_bus) <= BUS_MAXSIZE

(***************************************************************************)
(* C3: after the flag is set both tasks return.  In the form a finite run  *)
(* refutes: while the process lives, once the flag is set and the storage  *)
(* thread has returned, the harvester has returned too or can take a step. *)
(***************************************************************************)
C3_TasksReturn ==
    (system_event /\ main_pc # "exited" /\ stor_pc = "returned")
        => (harv_pc = "returned" \/ ENABLED Harvester)

(***************************************************************************)
(* C4: after Ctrl+C the process exits only when both tasks have returned,  *)
(* and every item popped from the bus has its two records by then.         *)
(***************************************************************************)
C4_ExitAfterTasks ==
    (main_pc = "exited" /\ system_event) =>
        /\ harv_pc = "returned"
        /\ stor_pc = "returned"
        /\ \A k \in DOMAIN popped : PersistedOnce(popped[k])

(***************************************************************************)
(* C5: once the flag is set the bus accepts no further push.               *)
(***************************************************************************)
C5_NoPushAfterShutdown == [][system_event => accepted' = accepted]_vars

(***************************************************************************)
(* C6: every length of a trace that is observed is at most                 *)
(* GHOST_TRACE_BUFFER: the ghost_points the harvester reports in an item,  *)
(* and the number of points the dashboard reports for the ISS.             *)
(***************************************************************************)
C6_TraceBounded ==
    /\ pipe = "satyo" =>
          \A k \in DOMAIN accepted : accepted[k].ghost_points <= GHOST_TRACE_BUFFER
    /\ shown.pts <= GHOST_TRACE_BUFFER

(***************************************************************************)
(* C7: a row the dashboard has printed shows the latitude, the longitude   *)
(* and the length of one state the ISS trace has been in.                  *)
(***************************************************************************)
C7_NoTornRead ==
    (pipe = "satyo" /\ main_pc = "pause")
        => <<shown.lat, shown.lon, shown.pts>> \in iss_states

(***************************************************************************)
(* C8: items leave the bus in the order they entered it: the items popped  *)
(* so far are the first items accepted, in the same order, and what is     *)
(* still on the bus follows them.                                          *)
(***************************************************************************)
C8_Fifo == popped \o telemetry_bus = accepted

\* Three items popped: two satellites of one cycle, then the first again.
C8_Witness ==
    /\ Len(popped) >= 3
    /\ SatnumOf(popped[1]) # SatnumOf(popped[2])
    /\ SatnumOf(popped[3]) = SatnumOf(popped[1])

(***************************************************************************)
(* C9: every popped item has its audit line if and only if its SNR is      *)
(* below 20.  Whenever the storage thread is not inside a round, the audit *)
(* log holds exactly the lines of the weak items popped, in order.         *)
(***************************************************************************)
C9_AnomalyIff ==
    (pipe = "satlen" /\ ~MidRound) => audit_log = WeakLines(popped)

(***************************************************************************)
(* C10: a failing sink write does not end the storage thread.              *)
(***************************************************************************)
C10_SinkIsolation == stor_pc # "crashed"

(***************************************************************************)
(* C11: a failure of the ephemeris for one satellite skips that satellite  *)
(* only: it never ends the harvester.                                      *)
(***************************************************************************)
C11_EphemerisIsolation == harv_pc # "crashed"

(***************************************************************************)
(* C12: a catalog load that fails, or that yields no satellite, ends the   *)
(* process with a non-zero exit code before either task is started.        *)
(***************************************************************************)
C12_CatalogFatal ==
    /\ (main_pc = "exited" /\ harv_pc = "idle" /\ stor_pc = "idle")
          => exit_code # 0
    /\ (main_pc \notin {"boot", "start"} /\ swarm = <<>>)
          => (main_pc = "exited" /\ exit_code # 0
              /\ harv_pc = "idle" /\ stor_pc = "idle")

\* The storage thread is between two rounds of its loop.
BetweenRounds == stor_pc \in {"check", "get"}

\* `old` is what `new` begins with.
IsPrefix(old, new) == Len(old) <= Len(new) /\ SubSeq(new, 1, Len(old)) = old

\* The binary log holds a packet.
FirstRecordWritten == \E k \in DOMAIN binary_log : binary_log[k].kind = "packet"

(***************************************************************************)
(* C13: between two rounds of the storage loop the binary log is the       *)
(* header followed by whole 28-byte records and nothing else; and once the *)
(* first record is written, the log only ever grows at its end.            *)
(***************************************************************************)
C13_BinaryLogShape ==
    /\ [](BetweenRounds =>
            /\ binary_log # <<>>
            /\ binary_log[1] = HeaderEntry
            /\ \A k \in 2 .. Len(binary_log) : binary_log[k].kind = "packet"
            /\ calcsize(RECORD_FORMAT) = 28)
    /\ [][FirstRecordWritten => IsPrefix(binary_log, binary_log')]_vars

\* The packets of a binary log, in file order.
Packets(log) == SelectSeq(log, LAMBDA entry : entry.kind = "packet")

\* The identifier an item carries.
IdOf(data) == IF pipe = "satlen" THEN data.node_id ELSE data.id

(***************************************************************************)
(* C14: the k-th record of the binary log carries the identifier, the      *)
(* latitude, longitude and altitude of the k-th sample and the doppler     *)
(* shift computed from that sample's range rate; the field is not zero     *)
(* when the range rate is not zero.                                        *)
(***************************************************************************)
C14_RecordFields ==
    \A k \in DOMAIN Packets(binary_log) :
        LET p == Packets(binary_log)[k].packet
            r == sampled[k]
        IN  /\ p.sat_id = IdOf(popped[k])
            /\ p.lat = r.lat /\ p.lon = r.lon /\ p.alt = r.alt
            /\ p.doppler = DopplerShift(r.range_rate)
            /\ (r.range_rate # 0 => p.doppler # 0)

\* The items whose round the storage thread has run to task_done().
Processed == SubSeq(popped, 1, tasks_done)

LastN(s, n) == SubSeq(s, IF Len(s) > n THEN Len(s) - n + 1 ELSE 1, Len(s))

\* Every point appended to the trace of `name`, oldest first.
AppendedTo(name) == IF name \in DOMAIN appended THEN appended[name] ELSE <<>>

\* The harvester has appended a point to the trace of `name` and has not
\* yet reached the test of its length.
MidAppend(name) == harv_pc = "vault_evict" /\ sat.name = name

C17_FlagMonotone ==
    /\ [](\A flag \in BOOLEAN : EventSet(EventSet(flag)) = EventSet(flag))
    /\ [][system_event => system_event']_vars

\* The flag is still set after both threads have seen it and the process
\* has ended.
C17_Witness ==
    /\ system_event
    /\ harv_pc = "returned" /\ stor_pc = "returned" /\ main_pc = "exited"

\* The place in the catalog, and the cycle, of the k-th sample pushed.
PlaceOf(k) == ((k - 1) % Len(swarm)) + 1
CycleOf(k) == ((k - 1) \div Len(swarm)) + 1

\* The harvester has completed every cycle it started.
CyclesComplete == harv_pc \in {"sleep", "check", "returned"}

\* The pipeline keeps ghost traces: satyo.py run with --ghost-trace.
KeepsTraces == pipe = "satyo" /\ ghost_enabled

Min(a, b) == IF a < b THEN a ELSE b

\* Exactly one sample per tracked object and completed cycle, in catalog
\* order.
OnePerObjectInOrder ==
    /\ \A k \in DOMAIN accepted : IdOf(accepted[k]) = swarm[PlaceOf(k)].satnum
    /\ CyclesComplete => Len(accepted) = cycles * Len(swarm)

\* The point of every sample pushed is in the trace history of its object,
\* and after c completed cycles every trace has min(c, K) points.
EverySampleTraced ==
    /\ \A k \in DOMAIN accepted :
          LET history == AppendedTo(swarm[PlaceOf(k)].name) IN
            /\ CycleOf(k) <= Len(history)
            /\ history[CycleOf(k)] = <<sampled[k].lat, sampled[k].lon>>
    /\ (CyclesComplete /\ main_pc # "exited") =>
          \A i \in DOMAIN swarm :
              Len(VaultGet(swarm[i].name, <<>>)) = Min(cycles, GHOST_TRACE_BUFFER)

NamedLike(i, n) ==
    Cardinality({j \in 1 .. n : swarm[j].name = swarm[i].name})

\* How many of the first k samples pushed are of the name of the k-th.
RankByName(k) ==
    (CycleOf(k) - 1) * NamedLike(PlaceOf(k), Len(swarm))
       + NamedLike(PlaceOf(k), PlaceOf(k))

EverySampleTracedByName ==
    /\ \A k \in DOMAIN accepted :
          LET history == AppendedTo(swarm[PlaceOf(k)].name) IN
            /\ RankByName(k) <= Len(history)
            /\ history[RankByName(k)] = <<sampled[k].lat, sampled[k].lon>>
    /\ (CyclesComplete /\ main_pc # "exited") =>
          \A i \in DOMAIN swarm :
              Len(VaultGet(swarm[i].name, <<>>)) =
                 Min(cycles * NamedLike(i, Len(swarm)), GHOST_TRACE_BUFFER)

MainSteps      == main_pc' # main_pc
HarvesterSteps == harv_pc' # harv_pc /\ ~MainSteps
StorageSteps   == stor_pc' # stor_pc /\ ~MainSteps

(***************************************************************************)
(* C19: only the harvester changes the vault and adds items to the bus;    *)
(* only the storage thread removes items from the bus and changes the      *)
(* three logs; the main thread changes none of these, and it alone changes *)
(* the shutdown flag.                                                      *)
(***************************************************************************)
C19_SingleWriter ==
    [][ /\ ghost_vault' # ghost_vault => HarvesterSteps
        /\ Len(telemetry_bus') > Len(telemetry_bus) => HarvesterSteps
        /\ Len(telemetry_bus') < Len(telemetry_bus) => StorageSteps
        /\ <<binary_log, json_log, audit_log>>' # <<binary_log, json_log, audit_log>>
              => StorageSteps
        /\ MainSteps => UNCHANGED <<ghost_vault, telemetry_bus, binary_log,
                                    json_log, audit_log>>
        /\ HarvesterSteps => UNCHANGED <<binary_log, json_log, audit_log,
                                         system_event>>
        /\ StorageSteps => UNCHANGED <<ghost_vault, system_event>>
      ]_vars

\* Each context has written what is its own to write, and items wait on
\* the bus.
C19_Witness ==
    /\ system_event
    /\ DOMAIN ghost_vault # {}
    /\ telemetry_bus # <<>>
    /\ Packets(binary_log) # <<>>
    /\ Len(json_log) > 0

\* The records of a structured log, in file order.
Records(log) == SelectSeq(log, LAMBDA entry : entry.kind = "record")

(***************************************************************************)
(* C20: the samples of the binary log are, in order and once each, the     *)
(* first samples popped from the bus; the structured log holds the same    *)
(* samples in the same order and is behind the binary log by one sample at *)
(* most.                                                                   *)
(***************************************************************************)
C20_LogsConsistent ==
    LET bins == Packets(binary_log)
        recs == Records(json_log)
    IN  /\ Len(bins) <= Len(popped)
        /\ \A k \in DOMAIN bins : bins[k] = PacketEntry(BlobOf(popped[k]))
        /\ Len(recs) <= Len(bins)
        /\ \A k \in DOMAIN recs : recs[k] = JsonEntry(popped[k])
        /\ Len(bins) - Len(recs) \in {0, 1}
        /\ IsPrefix(popped, accepted)

\* The second sample has its binary record and not yet its structured one.
C20_Witness ==
    /\ Len(Records(json_log)) >= 1
    /\ Len(Packets(binary_log)) = Len(Records(json_log)) + 1

\* The dashboard's read of the last point of a trace raised IndexError:
\* nothing catches it, the script ends with exit code 1 after the threads
\* were started.
DisplayReadFailed ==
    pipe = "satyo" /\ main_pc = "exited" /\ exit_code = 1 /\ harv_pc # "idle"

(***************************************************************************)
(* C21: a trace that has its entry in the vault is never empty in a state  *)
(* another thread can observe, and the dashboard's read of the last point  *)
(* of a trace never fails.                                                 *)
(***************************************************************************)
C21_TraceNeverEmpty ==
    /\ main_pc # "exited" =>
          \A name \in DOMAIN ghost_vault : ghost_vault[name] # <<>>
    /\ ~DisplayReadFailed

\* The trace the vault reports for the i-th object of the catalog.
TraceOf(i) == VaultGet(swarm[i].name, <<>>)

\* The points the harvester has sampled from the i-th object so far.
SampledFrom(i) ==
    { <<Ephemeris(sky, i, c).lat, Ephemeris(sky, i, c).lon>> : c \in 1 .. cycles }

\* No two objects of the catalog carry the same name.
NamesDistinct ==
    \A i, j \in DOMAIN swarm : swarm[i].name = swarm[j].name => i = j

(***************************************************************************)
(* C22: the trace reported for a tracked object holds only points sampled  *)
(* from that object, whatever the catalog, two objects of one name         *)
(* included.                                                               *)
(***************************************************************************)
C22_TraceIsolation ==
    \A i \in DOMAIN swarm :
        \A p \in DOMAIN TraceOf(i) : TraceOf(i)[p] \in SampledFrom(i)

====
